---- MODULE Spec2Model ----
(***************************************************************************)
(* A model of the sharkissa pipeline (Shark_iSSA_py/sharkissa):            *)
(*   regularize -> build_used_available -> add_social -> fit / k-fold CV.  *)
(*                                                                         *)
(* Numbers.  Floating point values are modelled by integers:               *)
(*   - NaN is a reserved value, propagated by every arithmetic operator;   *)
(*   - angles are counted in octants (TwoPi = 8 units of 45 degrees);      *)
(*   - sines, cosines and the constant 1.0 are fixed point, scaled by One; *)
(*   - time is counted in minutes, longitude in grid units, lengths in     *)
(*     metres (MetresPerUnit metres per longitude unit on the equator).    *)
(* Tables (pandas DataFrames) are sequences of records, one per row.       *)
(***************************************************************************)
EXTENDS Integers, Sequences, FiniteSets, TLC

VARIABLES
    pc,         \* where the command is
    raw,        \* the fix table read from the CSV file
    cfg,        \* the configuration
    reg,        \* the regularized table
    design,     \* the design table
    err,        \* the error the command ended with, or "none"
    reg2,       \* a second regularized table, for the comparison of queries
    q,          \* the neighbor query made
    ans,        \* its answer from the index of reg
    ans2,       \* its answer from the index of reg2
    res,        \* the fitted model of the fit command, or None
    fitted_on,  \* the table handed to the fitting function, or None
    metrics,    \* the metrics record of the fit command
    exported,   \* the table written by export_for_r, or None
    reported,   \* whether the report was written
    cv          \* the locals of kfold_time_cv

queryVars == <<reg2, q, ans, ans2>>

fitVars == <<res, fitted_on, metrics, exported, reported, cv>>

vars == <<pc, raw, cfg, reg, design, err, queryVars, fitVars>>

----------------------------------------------------------------------------
(* Bounds of the model.                                                    *)

\* Fix timestamps range over 0..MaxT minutes.
MaxT == 3

\* K_available ranges over 1..MaxK.
MaxK == 2

----------------------------------------------------------------------------
(* Values.                                                                 *)

NaN == 0 - 999999

IsFinite(v) == v # NaN

One == 12

TwoPi == 8

Pi == TwoPi \div 2

MetresPerUnit == 10

Abs(v) == IF v < 0 THEN 0 - v ELSE v

SetMin(S) == CHOOSE v \in S : \A w \in S : v <= w

SetMax(S) == CHOOSE v \in S : \A w \in S : v >= w

RECURSIVE SetSum(_, _)
SetSum(S, f) ==
    IF S = {} THEN 0
    ELSE LET t == CHOOSE t \in S : TRUE IN f[t] + SetSum(S \ {t}, f)

RECURSIVE SeqSum(_)
SeqSum(s) == IF s = <<>> THEN 0 ELSE Head(s) + SeqSum(Tail(s))

\* floor(sqrt(n)): np.hypot on integer squares
Isqrt(n) == CHOOSE r \in 0..n : r * r <= n /\ (r + 1) * (r + 1) > n

Hypot(dx, dy) ==
    IF dx = NaN \/ dy = NaN THEN NaN
    ELSE LET m == Abs(dx) + Abs(dy)
         IN  CHOOSE r \in 0..m : r * r <= dx * dx + dy * dy
                                 /\ (r + 1) * (r + 1) > dx * dx + dy * dy

\* sin of an angle in octants, scaled by One
SinQ(h) == <<0, 8, 12, 8, 0, 0 - 8, 0 - 12, 0 - 8>>[(h % TwoPi) + 1]

CosQ(h) == SinQ(h + 2)

\* np.arctan2(y, x) to the octant of the signs of y and x;
\* np.arctan2(0, 0) = 0.
Arctan2Q(y, x) ==
    IF y = 0 THEN (IF x >= 0 THEN 0 ELSE Pi)
    ELSE IF y > 0 THEN (IF x > 0 THEN 1 ELSE IF x = 0 THEN 2 ELSE 3)
    ELSE (IF x > 0 THEN 0 - 1 ELSE IF x = 0 THEN 0 - 2 ELSE 0 - 3)

\* floor(ln(v + 1e-9)) for v >= 0: ln(1e-9) is about -21
LogQ(v) ==
    IF v = NaN THEN NaN
    ELSE IF v <= 0 THEN 0 - 21
    ELSE Cardinality({k \in 1..8 :
             <<1, 3, 8, 21, 55, 149, 404, 1097>>[k] <= v}) - 1

----------------------------------------------------------------------------
(* Inputs: the fix table and the configuration.                            *)

Times == 0..MaxT

IdOrder == <<"A", "B">>

Ids == {IdOrder[i] : i \in 1..Len(IdOrder)}

\* Longitudes of fixes; individual B is only ever seen at one of them.
Lons == {0, 12}

LonsB == {12}

\* All fixes lie on the equator.
Lat0 == 0

\* raw[id][t] is the longitude of id's fix at minute t, NaN when id has no
\* fix at t (a Track has no duplicate timestamps).  Individual A's track is
\* any track; individual B, once seen, has a fix every minute.
TracksA == [Times -> Lons \cup {NaN}]

TracksB ==
    {[t \in Times |-> IF t >= s THEN l ELSE NaN] :
        s \in 0..(MaxT + 1), l \in LonsB}

RawTables == {[A |-> a, B |-> b] : a \in TracksA, b \in TracksB}

DtChoices == {1, 2}

Seeds == {42}

\* social.radius_m and social.cone_half_angle_deg of the YAML file
Radii == {100}

ConeHalfAngles == {60}

Configs ==
    [dt_minutes : DtChoices, K_available : 1..MaxK, seed : Seeds,
     neighbor_radius_m : Radii, cone_half_angle_deg : ConeHalfAngles]

----------------------------------------------------------------------------
(* regularize.py                                                           *)

_haversine(lon1, lat1, lon2, lat2) ==
    IF lon1 = NaN \/ lat1 = NaN \/ lon2 = NaN \/ lat2 = NaN THEN NaN
    ELSE Hypot(MetresPerUnit * (lon2 - lon1), MetresPerUnit * (lat2 - lat1))

\* On the equator cos(lat) = 1 and sin(lat) = 0, so that y = sin(dlon) and
\* x = 1: only the sign of dlon decides the octant.
_bearing(lon1, lat1, lon2, lat2) ==
    IF lon1 = NaN \/ lat1 = NaN \/ lon2 = NaN \/ lat2 = NaN THEN NaN
    ELSE LET dlon == lon2 - lon1
             y == IF dlon > 0 THEN 1 ELSE IF dlon < 0 THEN 0 - 1 ELSE 0
             x == 1
             ang == Arctan2Q(y, x)
         IN  (ang + TwoPi) % TwoPi

_to_local_xy(lon, lat, lon0, lat0) ==
    IF lon = NaN \/ lat = NaN \/ lon0 = NaN \/ lat0 = NaN THEN <<NaN, NaN>>
    ELSE <<MetresPerUnit * (lon - lon0), MetresPerUnit * (lat - lat0)>>

\* ((a - b + pi) % 2pi) - pi
WrapTurn(h, hp) ==
    IF h = NaN \/ hp = NaN THEN NaN
    ELSE ((h - hp + Pi) % TwoPi) - Pi

FixTimes(r, id) == {t \in Times : r[id][t] # NaN}

\* groupby(id): the individuals that have a row, in sorted order
GroupIds(r) == SelectSeq(IdOrder, LAMBDA id : FixTimes(r, id) # {})

\* median of the longitudes of all fixes
CountLE(r, v) ==
    Cardinality({p \in Ids \X Times : r[p[1]][p[2]] # NaN /\ r[p[1]][p[2]] <= v})

OrderStat(r, k) ==
    SetMin({v \in Lons : CountLE(r, v) >= k})

Median(r) ==
    LET n == CountLE(r, SetMax(Lons))
    IN  IF n = 0 THEN NaN
        ELSE IF n % 2 = 1 THEN OrderStat(r, (n + 1) \div 2)
        ELSE (OrderStat(r, n \div 2) + OrderStat(r, n \div 2 + 1)) \div 2

\* resample(dt).mean(): the bins floor(t / dt) from the first fix's to the
\* last fix's, each with the mean of its fixes, NaN when it has none
BinMean(r, id, b, dt) ==
    LET S == {t \in FixTimes(r, id) : t \div dt = b}
    IN  IF S = {} THEN NaN ELSE SetSum(S, r[id]) \div Cardinality(S)

FirstBin(r, id, dt) == SetMin(FixTimes(r, id)) \div dt

LastBin(r, id, dt) == SetMax(FixTimes(r, id)) \div dt

\* interpolate(limit_direction="both"): linear between the nearest bins
\* that have a value (the first and the last bin always have one)
Interpolate(r, id, b, dt) ==
    IF BinMean(r, id, b, dt) # NaN THEN BinMean(r, id, b, dt)
    ELSE LET have == {c \in FirstBin(r, id, dt)..LastBin(r, id, dt) :
                         BinMean(r, id, c, dt) # NaN}
             lo == SetMax({c \in have : c < b})
             hi == SetMin({c \in have : c > b})
             a  == BinMean(r, id, lo, dt)
             z  == BinMean(r, id, hi, dt)
         IN  a + ((z - a) * (b - lo)) \div (hi - lo)

\* the rows of one individual, before the final dropna
GroupRows(r, id, dt, lon0) ==
    LET b0  == FirstBin(r, id, dt)
        n   == LastBin(r, id, dt) - b0 + 1
        lon == [k \in 1..n |-> Interpolate(r, id, b0 + k - 1, dt)]
        lonp == [k \in 1..n |-> IF k = 1 THEN NaN ELSE lon[k - 1]]
        latp == [k \in 1..n |-> IF k = 1 THEN NaN ELSE Lat0]
        hd  == [k \in 1..n |-> _bearing(lonp[k], latp[k], lon[k], Lat0)]
        hdp == [k \in 1..n |-> IF k = 1 THEN NaN ELSE hd[k - 1]]
        len == [k \in 1..n |-> _haversine(lonp[k], latp[k], lon[k], Lat0)]
        xy  == [k \in 1..n |-> _to_local_xy(lon[k], Lat0, lon0, Lat0)]
    IN  [k \in 1..n |->
            [id |-> id,
             time |-> (b0 + k - 1) * dt,
             lon_prev |-> lonp[k],
             lat_prev |-> latp[k],
             step_len_m |-> len[k],
             heading_rad |-> hd[k],
             heading_prev_rad |-> hdp[k],
             turn_rad |-> WrapTurn(hd[k], hdp[k]),
             speed_mps |-> IF len[k] = NaN THEN NaN
                           ELSE len[k] \div (dt * 60),
             x_m |-> xy[k][1],
             y_m |-> xy[k][2],
             x_prev |-> IF k = 1 THEN NaN ELSE xy[k - 1][1],
             y_prev |-> IF k = 1 THEN NaN ELSE xy[k - 1][2]]]

\* pd.concat(out, ignore_index=True)
RECURSIVE ConcatGroups(_, _, _, _)
ConcatGroups(r, ids, dt, lon0) ==
    IF ids = <<>> THEN <<>>
    ELSE GroupRows(r, Head(ids), dt, lon0) \o ConcatGroups(r, Tail(ids), dt, lon0)

\* the row index of the concatenation, kept by dropna
WithIndex(rows) ==
    [i \in 1..Len(rows) |-> [idx |-> i - 1] @@ rows[i]]

\* dropna(subset=[lon_prev, lat_prev, step_len_m, x_prev, y_prev])
HasPrev(row) ==
    /\ row.lon_prev # NaN
    /\ row.lat_prev # NaN
    /\ row.step_len_m # NaN
    /\ row.x_prev # NaN
    /\ row.y_prev # NaN

DropNoPrev(rows) == SelectSeq(rows, HasPrev)

\* as regularize, but with a row only for the bins that hold a fix (no
\* grid row is made for an empty bin)
regularize_m(r, c) ==
    SelectSeq(
        DropNoPrev(WithIndex(ConcatGroups(r, GroupIds(r), c.dt_minutes, Median(r)))),
        LAMBDA row : BinMean(r, row.id, row.time \div c.dt_minutes, c.dt_minutes) # NaN)

regularize(r, c) ==
    DropNoPrev(WithIndex(ConcatGroups(r, GroupIds(r), c.dt_minutes, Median(r))))

----------------------------------------------------------------------------
(* clean.py                                                                *)

\* the defaults of the knobs: Config has no "cleaning" attribute, so
\* _cfg_get returns the default of every knob
MaxSpeedMS == 6

MinPointsPerId == 10

MinSegmentPoints == 3

MaxGapMinutes == 480

\* 1) and 2): the fixes with id, time, lon and lat, in range and not (0, 0)
InRange(r, id) ==
    {t \in FixTimes(r, id) :
        /\ Lat0 >= 0 - 90 /\ Lat0 <= 90
        /\ r[id][t] >= 0 - 180 /\ r[id][t] <= 180
        /\ ~(r[id][t] = 0 /\ Lat0 = 0)}

\* groupby(...).shift(): the fix before t among the fixes S, or NaN
PrevTime(S, t) ==
    IF {u \in S : u < t} = {} THEN NaN ELSE SetMax({u \in S : u < t})

\* __dt_s
DtSeconds(S, t) == IF PrevTime(S, t) = NaN THEN NaN ELSE 60 * (t - PrevTime(S, t))

\* big_gap: a new segment starts at t
BigGap(S, t) ==
    \/ DtSeconds(S, t) = NaN
    \/ DtSeconds(S, t) > MaxGapMinutes * 60
    \/ DtSeconds(S, t) <= 0

\* __segment: the cumulative sum of big_gap
SegmentOf(S, t) == Cardinality({u \in S : u <= t /\ BigGap(S, u)})

\* 5) the fixes of the segments with at least min_segment_points fixes
KeepSegs(S) ==
    {t \in S :
        Cardinality({u \in S : SegmentOf(S, u) = SegmentOf(S, t)}) >= MinSegmentPoints}

\* 6) the fixes whose speed from the fix before them, in their segment, is
\* not above max_speed_m_s
KeepSpeeds(r, id, S0, S) ==
    {t \in S :
        LET seg == {u \in S : SegmentOf(S0, u) = SegmentOf(S0, t)}
            tp  == PrevTime(seg, t)
        IN  \/ tp = NaN
            \/ _haversine(r[id][tp], Lat0, r[id][t], Lat0)
                   <= MaxSpeedMS * DtSeconds(seg, t)}

\* 7) no fix of an individual left with fewer than min_points_per_id fixes
KeepIds(S) == IF Cardinality(S) >= MinPointsPerId THEN S ELSE {}

\* the fixes of id that clean_raw keeps
KeptTimes(r, id) ==
    LET S0 == InRange(r, id)
    IN  KeepIds(KeepSpeeds(r, id, S0, KeepSegs(S0)))

\* the cleaned table
clean_raw(r) ==
    [id \in Ids |-> [t \in Times |-> IF t \in KeptTimes(r, id) THEN r[id][t] ELSE NaN]]

----------------------------------------------------------------------------
(* steps.py                                                                *)

\* np.random.default_rng(seed): a seeded generator, one stream per build
RngNext(s) == (s * 7 + 3) % 31

RECURSIVE RngSkip(_, _)
RngSkip(s, n) == IF n = 0 THEN s ELSE RngSkip(RngNext(s), n - 1)

\* rng.choice(pool, size=K, replace=True): K entries of pool
Choice(s, pool, K) ==
    [k \in 1..K |-> pool[(RngSkip(s, k) % Len(pool)) + 1]]

\* steps[col].dropna().values
RECURSIVE DropNa(_)
DropNa(vals) ==
    IF vals = <<>> THEN <<>>
    ELSE IF Head(vals) = NaN THEN DropNa(Tail(vals))
    ELSE <<Head(vals)>> \o DropNa(Tail(vals))

PoolLen(steps) == DropNa([i \in 1..Len(steps) |-> steps[i].step_len_m])

PoolTurn(steps) == DropNa([i \in 1..Len(steps) |-> steps[i].turn_rad])

\* as AvailableOf, but with the turns drawn from the pool of lengths
AvailableOf_m(r, s, pool_len, pool_turn, K) ==
    LET lengths == Choice(s, pool_len, K)
        turns   == Choice(RngSkip(s, K), pool_len, K)
        h0      == IF IsFinite(r.heading_prev_rad) THEN r.heading_prev_rad
                   ELSE r.heading_rad
        headings == [k \in 1..K |-> (h0 + turns[k] + TwoPi) % TwoPi]
    IN  [k \in 1..K |->
            [stratum_id |-> r.idx,
             id |-> r.id,
             time |-> r.time,
             x_end |-> r.x_prev + (lengths[k] * SinQ(headings[k])) \div One,
             y_end |-> r.y_prev + (lengths[k] * CosQ(headings[k])) \div One,
             heading_step |-> headings[k],
             is_used |-> 0]]

\* the K available rows of one step (the body of the loop of sample)
AvailableOf(r, s, pool_len, pool_turn, K) ==
    LET lengths == Choice(s, pool_len, K)
        turns   == Choice(RngSkip(s, K), pool_turn, K)
        h0      == IF IsFinite(r.heading_prev_rad) THEN r.heading_prev_rad
                   ELSE r.heading_rad
        headings == [k \in 1..K |-> (h0 + turns[k] + TwoPi) % TwoPi]
    IN  [k \in 1..K |->
            [stratum_id |-> r.idx,
             id |-> r.id,
             time |-> r.time,
             x_end |-> r.x_prev + (lengths[k] * SinQ(headings[k])) \div One,
             y_end |-> r.y_prev + (lengths[k] * CosQ(headings[k])) \div One,
             heading_step |-> headings[k],
             is_used |-> 0]]

\* as SampleRows, but skipping the steps without a finite previous heading
RECURSIVE SampleRows_m(_, _, _, _, _, _)
SampleRows_m(steps, i, s, pool_len, pool_turn, K) ==
    IF i > Len(steps) THEN <<>>
    ELSE IF ~IsFinite(steps[i].heading_prev_rad)
         THEN SampleRows_m(steps, i + 1, s, pool_len, pool_turn, K)
    ELSE AvailableOf(steps[i], s, pool_len, pool_turn, K)
         \o SampleRows_m(steps, i + 1, RngSkip(s, 2 * K), pool_len, pool_turn, K)

\* AvailableSampler.sample, after the test of the pools: a step without a
\* finite heading is skipped and draws nothing
RECURSIVE SampleRows(_, _, _, _, _, _)
SampleRows(steps, i, s, pool_len, pool_turn, K) ==
    IF i > Len(steps) THEN <<>>
    ELSE IF ~IsFinite(steps[i].heading_rad)
         THEN SampleRows(steps, i + 1, s, pool_len, pool_turn, K)
    ELSE AvailableOf(steps[i], s, pool_len, pool_turn, K)
         \o SampleRows(steps, i + 1, RngSkip(s, 2 * K), pool_len, pool_turn, K)

PoolsEmpty(steps) == Len(PoolLen(steps)) = 0 \/ Len(PoolTurn(steps)) = 0

sample(steps, K, seed) ==
    SampleRows(steps, 1, seed, PoolLen(steps), PoolTurn(steps), K)

\* the step a stratum id names: steps.loc[stratum_id]
StepAt(steps, sid) ==
    steps[CHOOSE i \in 1..Len(steps) : steps[i].idx = sid]

UsedRows(steps) ==
    [i \in 1..Len(steps) |->
        [stratum_id |-> steps[i].idx,
         id |-> steps[i].id,
         time |-> steps[i].time,
         x_end |-> steps[i].x_m,
         y_end |-> steps[i].y_m,
         heading_step |-> steps[i].heading_rad,
         log_l |-> LogQ(steps[i].step_len_m),
         cos_turn |-> IF steps[i].turn_rad = NaN THEN NaN
                      ELSE CosQ(steps[i].turn_rad),
         is_used |-> 1,
         log_l2 |-> LogQ(steps[i].step_len_m) * LogQ(steps[i].step_len_m)]]

\* log_l recomputed from the realized displacement; cos_turn = 1.0
AvailRows(steps, avail) ==
    [i \in 1..Len(avail) |->
        LET o  == StepAt(steps, avail[i].stratum_id)
            ll == LogQ(Hypot(avail[i].x_end - o.x_prev, avail[i].y_end - o.y_prev))
        IN  avail[i] @@ [log_l |-> ll, cos_turn |-> One, log_l2 |-> ll * ll]]

build_used_available(steps, c) ==
    UsedRows(steps) \o AvailRows(steps, sample(steps, c.K_available, c.seed))

----------------------------------------------------------------------------
(* covariates/social.py                                                    *)

\* TimeNeighborIndex.build: time_to_arr[t] holds the rows of reg at time t,
\* for the timestamps reg has; no other timestamp is a key
IndexTimes(rg) == {rg[i].time : i \in 1..Len(rg)}

\* as TimeToArr, but with the rows of the earlier timestamps too
TimeToArr_m(rg, t) == SelectSeq(rg, LAMBDA row : row.time <= t)

TimeToArr(rg, t) == SelectSeq(rg, LAMBDA row : row.time = t)

NoNeighbors ==
    [nn_dist |-> NaN, n_forward |-> 0, n_behind |-> 0,
     ahead_any |-> 0, behind_any |-> 0,
     mean_align_fwd |-> NaN, rel_speed_fwd |-> NaN]

\* as Radians, but a half turn whatever the configured angle
Radians_m(deg) == Pi

\* math.radians(cone_half_angle_deg), in octants
Radians(deg) == (deg * TwoPi) \div 360

\* |((a - h + pi) % 2pi) - pi|
AngDiff(a, h) == Abs(((a - h + Pi) % TwoPi) - Pi)

\* np.nanmean of a sequence: NaN when it has no finite entry
NanMean(vals) ==
    LET fin == DropNa(vals)
    IN  IF fin = <<>> THEN NaN ELSE SeqSum(fin) \div Len(fin)

query_social(rg, radius_m, cone_deg, time, x_end, y_end, step_heading, focal_id) ==
    IF time \notin IndexTimes(rg) THEN NoNeighbors
    ELSE
    LET arr  == TimeToArr(rg, time)
        dx(p) == p.x_m - x_end
        dy(p) == p.y_m - y_end
        \* mask: not the focal individual, finite distance
        nb   == SelectSeq(arr, LAMBDA p :
                    p.id # focal_id /\ IsFinite(Hypot(dx(p), dy(p))))
        \* in_r: dist <= radius
        inr  == SelectSeq(nb, LAMBDA p :
                    dx(p) * dx(p) + dy(p) * dy(p) <= radius_m * radius_m)
    IN  IF inr = <<>> THEN NoNeighbors
        ELSE
        LET ux == SinQ(step_heading)
            uy == CosQ(step_heading)
            proj(p) == dx(p) * ux + dy(p) * uy
            half == Radians(cone_deg)
            ang_diff(p) == AngDiff(Arctan2Q(dx(p), dy(p)), step_heading)
            forward == SelectSeq(inr, LAMBDA p : proj(p) > 0 /\ ang_diff(p) <= half)
            behind  == SelectSeq(inr, LAMBDA p : proj(p) < 0 /\ ang_diff(p) <= half)
            n_fwd == Len(forward)
            n_bhd == Len(behind)
            align == [i \in 1..n_fwd |->
                         IF forward[i].heading_rad = NaN THEN NaN
                         ELSE CosQ(((forward[i].heading_rad - step_heading + Pi)
                                    % TwoPi) - Pi)]
            speed == [i \in 1..n_fwd |-> forward[i].speed_mps]
        IN  [nn_dist |-> SetMin({Hypot(dx(inr[i]), dy(inr[i])) : i \in 1..Len(inr)}),
             n_forward |-> n_fwd,
             n_behind |-> n_bhd,
             ahead_any |-> IF n_fwd > 0 THEN 1 ELSE 0,
             behind_any |-> IF n_bhd > 0 THEN 1 ELSE 0,
             mean_align_fwd |-> IF n_fwd > 0 THEN NanMean(align) ELSE NaN,
             rel_speed_fwd |-> IF n_fwd > 0 THEN NanMean(speed) ELSE NaN]

----------------------------------------------------------------------------
(* design.py                                                               *)

\* the loop over the design rows: each row is queried at its own time,
\* endpoint, heading and id, and the record is written into the row
SocialEvaluated(d, rg, c) ==
    [i \in 1..Len(d) |->
        query_social(rg, c.neighbor_radius_m, c.cone_half_angle_deg,
                     d[i].time, d[i].x_end, d[i].y_end, d[i].heading_step, d[i].id)
        @@ d[i]]

FillNa(v, w) == IF v = NaN THEN w ELSE v

\* as FillSocial, but leaving nn_dist as the query returned it
FillSocial_m(d, c) ==
    [i \in 1..Len(d) |->
        [d[i] EXCEPT
            !.ahead_any = FillNa(@, 0),
            !.behind_any = FillNa(@, 0),
            !.n_forward = FillNa(@, 0),
            !.n_behind = FillNa(@, 0),
            !.mean_align_fwd = FillNa(@, 0),
            !.rel_speed_fwd = FillNa(@, 0)]]

\* "Fill social NaNs deterministically"
FillSocial(d, c) ==
    [i \in 1..Len(d) |->
        [d[i] EXCEPT
            !.ahead_any = FillNa(@, 0),
            !.behind_any = FillNa(@, 0),
            !.n_forward = FillNa(@, 0),
            !.n_behind = FillNa(@, 0),
            !.nn_dist = FillNa(@, c.neighbor_radius_m),
            !.mean_align_fwd = FillNa(@, 0),
            !.rel_speed_fwd = FillNa(@, 0)]]

\* "Drop strata with invalid cos_turn"
BadStrata(d) == {d[i].stratum_id : i \in {j \in 1..Len(d) : ~IsFinite(d[j].cos_turn)}}

\* as DropBadStrata, but dropping only the rows that are bad themselves
DropBadStrata_m(d) ==
    SelectSeq(d, LAMBDA row : IsFinite(row.cos_turn))

DropBadStrata(d) ==
    SelectSeq(d, LAMBDA row : row.stratum_id \notin BadStrata(d))

\* _zscore of one column: (s - m) / sd, or s - m when sd is 0 or not finite
Column(d, col) == [i \in 1..Len(d) |-> d[i][col]]

NanStd(vals) ==
    LET fin == DropNa(vals)
        m   == NanMean(vals)
    IN  IF fin = <<>> THEN NaN
        ELSE Isqrt(SeqSum([i \in 1..Len(fin) |-> (fin[i] - m) * (fin[i] - m)])
                   \div Len(fin))

_zscore(vals) ==
    LET m  == NanMean(vals)
        sd == NanStd(vals)
    IN  [i \in 1..Len(vals) |->
            IF vals[i] = NaN \/ m = NaN THEN NaN
            ELSE IF ~IsFinite(sd) \/ sd = 0 THEN vals[i] - m
            ELSE ((vals[i] - m) * One) \div sd]

ToStandardize ==
    <<"log_l", "log_l2", "cos_turn", "nn_dist", "n_forward", "n_behind",
      "mean_align_fwd", "rel_speed_fwd">>

RECURSIVE StandardizeCols(_, _)
StandardizeCols(d, cols) ==
    IF cols = <<>> THEN d
    ELSE LET z == _zscore(Column(d, Head(cols)))
         IN  StandardizeCols(
                 [i \in 1..Len(d) |-> [d[i] EXCEPT ![Head(cols)] = z[i]]],
                 Tail(cols))

Standardized(d) == StandardizeCols(d, ToStandardize)

----------------------------------------------------------------------------
(* The pipeline.                                                           *)

\* Python's None
None == [none |-> TRUE]

EmptyDict == [key \in {} |-> 0]

NoCV ==
    [k |-> 0, d |-> <<>>, f |-> 0, log_score |-> <<>>, rank_mean |-> <<>>,
     rank_top1 |-> <<>>, errors |-> <<>>, broke |-> FALSE,
     test |-> <<>>, eta |-> <<>>, p |-> <<>>,
     fitted |-> <<>>, scored |-> <<>>, out |-> EmptyDict]

FitIdle ==
    /\ res = None
    /\ fitted_on = None
    /\ metrics = EmptyDict
    /\ exported = None
    /\ reported = FALSE
    /\ cv = NoCV

NoQuery == [time |-> 0, x_end |-> 0, y_end |-> 0, heading_step |-> 0, id |-> "A"]

QueryIdle ==
    /\ reg2 = <<>>
    /\ q = NoQuery
    /\ ans = NoNeighbors
    /\ ans2 = NoNeighbors

Init ==
    /\ pc = "start"
    /\ raw \in RawTables
    /\ cfg \in Configs
    /\ reg = <<>>
    /\ design = <<>>
    /\ err = "none"
    /\ QueryIdle
    /\ FitIdle

\* cli design: reg = regularize(raw, c).  pd.concat of no group raises.
Regularize ==
    /\ pc = "start"
    /\ IF GroupIds(raw) = <<>>
       THEN /\ pc' = "failed"
            /\ err' = "ValueError: No objects to concatenate"
            /\ reg' = reg
       ELSE /\ pc' = "regularized"
            /\ reg' = regularize(raw, cfg)
            /\ err' = err
    /\ UNCHANGED <<raw, cfg, design, queryVars, fitVars>>

\* cli design: dsg = build_used_available(reg, c).  sample raises when a
\* pool is empty, and no design table is returned.
BuildUsedAvailable ==
    /\ pc = "regularized"
    /\ IF PoolsEmpty(reg)
       THEN /\ pc' = "failed"
            /\ err' = "ValueError: Not enough steps to sample available steps."
            /\ design' = design
       ELSE /\ pc' = "built"
            /\ design' = build_used_available(reg, cfg)
            /\ err' = err
    /\ UNCHANGED <<raw, cfg, reg, queryVars, fitVars>>

\* add_social, step 1: the neighbor index is built from reg and every
\* design row gets its social covariates
AddSocialQuery ==
    /\ pc = "built"
    /\ design' = SocialEvaluated(design, reg, cfg)
    /\ pc' = "social"
    /\ UNCHANGED <<raw, cfg, reg, err, queryVars, fitVars>>

\* add_social, step 2: the missing-value policy
AddSocialFill ==
    /\ pc = "social"
    /\ design' = FillSocial(design, cfg)
    /\ pc' = "filled"
    /\ UNCHANGED <<raw, cfg, reg, err, queryVars, fitVars>>

\* add_social, step 3: strata with a non-finite cos_turn are dropped
AddSocialDrop ==
    /\ pc = "filled"
    /\ design' = DropBadStrata(design)
    /\ pc' = "dropped"
    /\ UNCHANGED <<raw, cfg, reg, err, queryVars, fitVars>>

\* add_social, step 4: the numeric covariates are standardized and the
\* design table is returned
AddSocialStandardize ==
    /\ pc = "dropped"
    /\ design' = Standardized(design)
    /\ pc' = "designed"
    /\ UNCHANGED <<raw, cfg, reg, err, queryVars, fitVars>>

Next ==
    \/ Regularize
    \/ BuildUsedAvailable
    \/ AddSocialQuery
    \/ AddSocialFill
    \/ AddSocialDrop
    \/ AddSocialStandardize

Spec == Init /\ [][Next]_vars

----------------------------------------------------------------------------
(* Neighbor queries against two tables (specification SpecQuery): the      *)
(* design command up to the design rows, then one row of the regularized   *)
(* table is changed and one of the queries of add_social is answered from  *)
(* the index of each table.                                                *)

\* individual A with a fix every minute
TracksAQ == [Times -> Lons]

RawTablesQ == {[A |-> a, B |-> b] : a \in TracksAQ, b \in TracksB}

ConfigsQ == {c \in Configs : c.K_available = 1}

InitQuery ==
    /\ pc = "start"
    /\ raw \in RawTablesQ
    /\ cfg \in ConfigsQ
    /\ reg = <<>>
    /\ design = <<>>
    /\ err = "none"
    /\ QueryIdle
    /\ FitIdle

PerturbKinds == {"x_m", "y_m", "heading_rad", "speed_mps"}

\* row i of rg with its position, heading or speed changed
Perturbed(rg, i, kind) ==
    [rg EXCEPT ![i] =
        CASE kind = "x_m" -> [@ EXCEPT !.x_m = @ + 60]
          [] kind = "y_m" -> [@ EXCEPT !.y_m = @ + 60]
          [] kind = "heading_rad" -> [@ EXCEPT !.heading_rad = (@ + 1) % TwoPi]
          [] kind = "speed_mps" -> [@ EXCEPT !.speed_mps = @ + 1]]

Perturb ==
    /\ pc = "built"
    /\ \E i \in 1..Len(reg), kind \in PerturbKinds :
           reg2' = Perturbed(reg, i, kind)
    /\ pc' = "perturbed"
    /\ UNCHANGED <<raw, cfg, reg, design, err, q, ans, ans2, fitVars>>

\* the query add_social makes for design row i (design.py, lines 65-71),
\* answered from the index built from reg and from the one built from reg2
Query ==
    /\ pc = "perturbed"
    /\ \E i \in 1..Len(design) :
           /\ q' = [time |-> design[i].time, x_end |-> design[i].x_end,
                    y_end |-> design[i].y_end,
                    heading_step |-> design[i].heading_step, id |-> design[i].id]
           /\ ans' = query_social(reg, cfg.neighbor_radius_m, cfg.cone_half_angle_deg,
                                  q'.time, q'.x_end, q'.y_end, q'.heading_step, q'.id)
           /\ ans2' = query_social(reg2, cfg.neighbor_radius_m, cfg.cone_half_angle_deg,
                                   q'.time, q'.x_end, q'.y_end, q'.heading_step, q'.id)
    /\ pc' = "answered"
    /\ UNCHANGED <<raw, cfg, reg, design, err, reg2, fitVars>>

NextQuery ==
    \/ Regularize
    \/ BuildUsedAvailable
    \/ Perturb
    \/ Query

SpecQuery == InitQuery /\ [][NextQuery]_vars

----------------------------------------------------------------------------
(* query_social alone (specification SpecSocial): an index of three points *)
(* and one query at the origin.                                            *)

\* Neighbors are placed up to MaxGrid steps of 60 m from the query endpoint,
\* along the axes and the diagonals.
MaxGrid == 2

Positions ==
    {<<60 * i * sx, 60 * i * sy>> : i \in 0..MaxGrid, sx \in {0 - 1, 0, 1}, sy \in {0 - 1, 0, 1}}

\* a row of reg, with the columns TimeNeighborIndex.build reads
IndexRow(id, t, pos, h, sp) ==
    [id |-> id, time |-> t, x_m |-> pos[1], y_m |-> pos[2],
     heading_rad |-> h, speed_mps |-> sp]

\* the focal individual's own point, a neighbor B anywhere at the query time
\* or a minute later, and a neighbor C ahead or behind
IndexTables ==
    {<<IndexRow("A", 0, pa, 0, 1), IndexRow("B", tb, pb, hb, 2), IndexRow("C", 0, pc_, 2, 3)>> :
        pa \in {<<0, 0>>, <<0, 60>>}, tb \in {0, 1}, pb \in Positions, hb \in {0, Pi},
        pc_ \in {<<0, 60>>, <<0, 0 - 60>>}}

Queries ==
    {[time |-> 0, x_end |-> 0, y_end |-> 0, heading_step |-> h, id |-> "A"] : h \in 0..(TwoPi - 1)}

\* cone half-angles below, at and above the default
ConeHalfAnglesS == ConeHalfAngles \cup {30, 90}

ConfigsS ==
    {[c EXCEPT !.cone_half_angle_deg = a] :
        c \in {d \in Configs : d.K_available = 1 /\ d.dt_minutes = 1},
        a \in ConeHalfAnglesS}

InitSocial ==
    /\ pc = "q_start"
    /\ raw = [id \in Ids |-> [t \in Times |-> NaN]]
    /\ cfg \in ConfigsS
    /\ reg \in IndexTables
    /\ design = <<>>
    /\ err = "none"
    /\ reg2 = <<>>
    /\ q \in Queries
    /\ ans = NoNeighbors
    /\ ans2 = NoNeighbors
    /\ FitIdle

\* ni.build(reg, ...) and one call of ni.query_social
SocialQuery ==
    /\ pc = "q_start"
    /\ ans' = query_social(reg, cfg.neighbor_radius_m, cfg.cone_half_angle_deg,
                           q.time, q.x_end, q.y_end, q.heading_step, q.id)
    /\ pc' = "q_answered"
    /\ UNCHANGED <<raw, cfg, reg, design, err, reg2, q, ans2, fitVars>>

NextSocial == SocialQuery

SpecSocial == InitSocial /\ [][NextSocial]_vars

----------------------------------------------------------------------------
(* The turn angles of regularize alone (specification SpecTurn): the       *)
(* bearings of three consecutive steps of one individual.                  *)

Bearings == 0..(TwoPi - 1)

\* the columns heading_rad and heading_prev_rad (lines 49-50) of the rows of
\* three steps; turn_rad is not yet set
HeadingRows(hs) ==
    [k \in 1..Len(hs) |->
        [id |-> "A", time |-> k, heading_rad |-> hs[k],
         heading_prev_rad |-> IF k = 1 THEN NaN ELSE hs[k - 1],
         turn_rad |-> NaN]]

InitTurn ==
    /\ pc = "t_start"
    /\ raw = [id \in Ids |-> [t \in Times |-> NaN]]
    /\ cfg = CHOOSE c \in Configs : TRUE
    /\ reg \in {HeadingRows(<<h1, h2, h3>>) : h1 \in Bearings, h2 \in Bearings, h3 \in Bearings}
    /\ design = <<>>
    /\ err = "none"
    /\ QueryIdle
    /\ FitIdle

\* line 51: s["turn_rad"] = ((heading - heading_prev + pi) % (2 pi)) - pi
TurnAngles ==
    /\ pc = "t_start"
    /\ reg' = [k \in 1..Len(reg) |->
                  [reg[k] EXCEPT !.turn_rad =
                      WrapTurn(reg[k].heading_rad, reg[k].heading_prev_rad)]]
    /\ pc' = "t_done"
    /\ UNCHANGED <<raw, cfg, design, err, queryVars, fitVars>>

NextTurn == TurnAngles

SpecTurn == InitTurn /\ [][NextTurn]_vars

----------------------------------------------------------------------------
(* validate.py                                                             *)

\* exp(d) for d <= 0, fixed point with three decimals
ExpQ(d) ==
    IF d = NaN THEN NaN
    ELSE IF d >= 0 THEN 1000
    ELSE IF d = 0 - 1 THEN 368
    ELSE IF d = 0 - 2 THEN 135
    ELSE IF d = 0 - 3 THEN 50
    ELSE IF d = 0 - 4 THEN 18
    ELSE 1

\* as softmax_by_stratum, but with the sum taken over the whole table
softmax_by_stratum_m(lp, strata) ==
    LET n == Len(lp)
        mx(i) == SetMax({lp[j] : j \in {j \in 1..n : strata[j] = strata[i]}})
        e == [i \in 1..n |-> ExpQ(lp[i] - mx(i))]
    IN  [i \in 1..n |-> [num |-> e[i], den |-> SeqSum(e)]]

\* df["exp"] / df["sumexp"] per row: the quotient is kept as a fraction
softmax_by_stratum(lp, strata) ==
    LET n == Len(lp)
        mx(i) == SetMax({lp[j] : j \in {j \in 1..n : strata[j] = strata[i]}})
        e == [i \in 1..n |-> ExpQ(lp[i] - mx(i))]
        sumexp(i) == SeqSum([j \in 1..n |-> IF strata[j] = strata[i] THEN e[j] ELSE 0])
    IN  [i \in 1..n |-> [num |-> e[i], den |-> sumexp(i)]]

\* sort_values(["id", "time"]): a stable sort on (id, time)
RowTimes(d) == {d[i].time : i \in 1..Len(d)}

RECURSIVE SortByTime(_, _)
SortByTime(d, ts) ==
    IF ts = {} THEN <<>>
    ELSE LET t == SetMin(ts)
         IN  SelectSeq(d, LAMBDA row : row.time = t) \o SortByTime(d, ts \ {t})

RECURSIVE SortByIdTime(_, _)
SortByIdTime(d, ids) ==
    IF ids = <<>> THEN <<>>
    ELSE LET g == SelectSeq(d, LAMBDA row : row.id = Head(ids))
         IN  SortByTime(g, RowTimes(g)) \o SortByIdTime(d, Tail(ids))

\* groupby("id")["time"].rank(method="first") on the sorted table: the
\* position of the row among the rows of its id
TRank(d, i) == Cardinality({j \in 1..i : d[j].id = d[i].id})

\* t_fold = (t_rank % k).astype(int)
FoldLabel(rank, k) == rank % k

WithFolds(design_, k) ==
    LET d == SortByIdTime(design_, IdOrder)
    IN  [i \in 1..Len(d) |->
            [t_rank |-> TRank(d, i),
             t_fold |-> FoldLabel(TRank(d, i), k)]
            @@ d[i]]

\* np.mean of a list of floats
Mean(vals) ==
    IF vals = <<>> \/ \E i \in 1..Len(vals) : vals[i] = NaN THEN NaN
    ELSE SeqSum(vals) \div Len(vals)

\* the coefficient a fit returns
Betas == {0, 1}

\* the outcomes of one pass of the loop body: the fit of the training rows
\* raises (line 24), or it returns params and the scoring raises before
\* anything is appended (lines 26-31) or after log_score is (lines 33-36),
\* or nothing raises
FoldOutcomes ==
    {[fit |-> "raises", score |-> "none", params |-> 0]}
    \cup {[fit |-> "ok", score |-> sc, params |-> b] :
              sc \in {"raises", "raises_late", "ok"}, b \in Betas}

\* eta = (test[cols] @ res.params).astype(float)
FoldEta(test, params) ==
    [i \in 1..Len(test) |-> IF test[i].log_l = NaN THEN NaN
                            ELSE test[i].log_l * params]

\* test["stratum_id"]
StrataCol(test) == [i \in 1..Len(test) |-> test[i].stratum_id]

\* the three metrics of the held-out rows (lines 26-37)
FoldScores(test, params) ==
    LET n    == Len(test)
        eta  == FoldEta(test, params)
        p    == softmax_by_stratum(eta, StrataCol(test))
        used == {i \in 1..n : test[i].is_used = 1}
        useq == SelectSeq([i \in 1..n |-> i], LAMBDA i : i \in used)
        rank(i) == 1 + Cardinality({j \in 1..n :
                        test[j].stratum_id = test[i].stratum_id /\ eta[j] > eta[i]})
    IN  [log_score |-> Mean([u \in 1..Len(useq) |->
                                LogQ(p[useq[u]].den \div p[useq[u]].num)]),
         rank_mean |-> Mean([u \in 1..Len(useq) |-> 100 * rank(useq[u])]),
         rank_top1 |-> Mean([u \in 1..Len(useq) |->
                                IF rank(useq[u]) = 1 THEN 100 ELSE 0])]

\* kfold_time_cv up to the loop: the fold labels
CVStart(design_, k) ==
    [NoCV EXCEPT !.k = k, !.d = WithFolds(design_, k)]

\* as OnFoldError, but going on with the next fold
OnFoldError_m(c, e) ==
    [c EXCEPT !.errors = Append(@, e), !.f = c.f + 1]

\* except Exception as e: metrics["errors"].append(str(e)); break
OnFoldError(c, e) ==
    [c EXCEPT !.errors = Append(@, e), !.broke = TRUE]

\* one pass of the loop body
FoldStep(c, o) ==
    LET test == SelectSeq(c.d, LAMBDA row : row.t_fold = c.f)
        sc   == FoldScores(test, o.params)
        eta  == FoldEta(test, o.params)
        c0   == [c EXCEPT !.fitted = Append(@, c.f), !.test = test]
        c1   == [c0 EXCEPT !.eta = eta,
                           !.p = softmax_by_stratum(eta, StrataCol(test))]
    IN  IF o.fit = "raises" THEN OnFoldError(c0, "fit failed")
        ELSE IF o.score = "raises" THEN OnFoldError(c0, "scoring failed")
        ELSE IF o.score = "raises_late"
        THEN OnFoldError([c1 EXCEPT !.log_score = Append(@, sc.log_score)],
                         "ranking failed")
        ELSE [c1 EXCEPT !.log_score = Append(@, sc.log_score),
                        !.rank_mean = Append(@, sc.rank_mean),
                        !.rank_top1 = Append(@, sc.rank_top1),
                        !.scored = Append(@, c.f),
                        !.f = c.f + 1]

\* "aggregate": the mean of every list but errors, then errors if any
MetricKeys == {"log_score", "rank_mean", "rank_top1"}

Aggregate(c) ==
    LET keys == {key \in MetricKeys : c[key] # <<>>}
        out  == [key \in keys |-> Mean(c[key])]
    IN  IF c.errors # <<>> THEN [errors |-> c.errors] @@ out ELSE out

----------------------------------------------------------------------------
(* fit/conditional.py and the fit command of cli/main.py                   *)

\* the formula of the YAML file: one covariate
FormulaCols == <<"log_l">>

\* what the statistical backend does when asked for a fit
Backends ==
    {[import |-> "fails", fit |-> "none", params |-> 0],
     [import |-> "ok", fit |-> "raises", params |-> 0]}
    \cup {[import |-> "ok", fit |-> "ok", params |-> b] : b \in Betas}

\* as try_statsmodels_conditional_logit, but without the except clause
try_statsmodels_conditional_logit_m(d, backend) ==
    IF backend.import = "ok" /\ backend.fit = "ok"
    THEN [raised |-> FALSE,
          value |-> [params |-> backend.params, nobs |-> Len(d), df_model |-> Len(FormulaCols)]]
    ELSE [raised |-> TRUE, value |-> None]

\* try: ... return res / except Exception: warn; return None
try_statsmodels_conditional_logit(d, backend) ==
    IF backend.import = "ok" /\ backend.fit = "ok"
    THEN [raised |-> FALSE,
          value |-> [params |-> backend.params, nobs |-> Len(d), df_model |-> Len(FormulaCols)]]
    ELSE [raised |-> FALSE, value |-> None]

\* design[["stratum_id", "is_used"] + formula_cols].to_csv
export_for_r(d) ==
    [i \in 1..Len(d) |->
        [stratum_id |-> d[i].stratum_id, is_used |-> d[i].is_used, log_l |-> d[i].log_l]]

\* AIC, BIC, logLik, df and n of the fitted model; math.log(0) raises and
\* the except clause returns {}.  The log-likelihood is taken as -nobs.
summarize_conditional_logit(r) ==
    LET ll == 0 - r.nobs
        k  == r.df_model + 1
        n  == r.nobs
    IN  IF n <= 0 THEN EmptyDict
        ELSE [ll |-> ll, k |-> k, n |-> n, AIC |-> 2 * k - 2 * ll,
              BIC |-> LogQ(n) * k - 2 * ll]

\* "Keep only strata that are complete (no NaN/Inf) for the chosen formula",
\* then dropna(subset=cols)
BadFitStrata(d) ==
    {d[i].stratum_id : i \in {j \in 1..Len(d) : ~IsFinite(d[j].log_l)}}

SanitizedForFit(d) ==
    SelectSeq(SelectSeq(d, LAMBDA row : row.stratum_id \notin BadFitStrata(d)),
              LAMBDA row : IsFinite(row.is_used) /\ IsFinite(row.stratum_id)
                           /\ IsFinite(row.log_l))

\* the k of the call kfold_time_cv(dsg, formula_cols, k=5)
FitFolds == 5

----------------------------------------------------------------------------
(* Design tables as the fit command reads them from the CSV file.          *)

\* Each individual has up to MaxStrata strata.
MaxStrata == 2

Patterns == {"same", "used_high", "skew", "mixed", "nan"}

\* the covariate of alternative a (0: the used row) of stratum sid
CovOf(pat, sid, a) ==
    CASE pat = "same" -> 0
      [] pat = "used_high" -> IF a = 0 THEN 1 ELSE 0
      [] pat = "skew" -> IF sid > 1 /\ a = 0 THEN 1 ELSE 0
      [] pat = "mixed" -> (sid + a) % 2
      [] pat = "nan" -> IF sid = 1 /\ a = 1 THEN NaN ELSE IF a = 0 THEN 1 ELSE 0

StrataOf(nA, nB) ==
    [i \in 1..(nA + nB) |->
        IF i <= nA THEN [stratum_id |-> i, id |-> "A", time |-> i]
        ELSE [stratum_id |-> i, id |-> "B", time |-> i - nA]]

\* the used rows first, then the available rows, as build_used_available
\* concatenates them
DesignOf(nA, nB, K, pat) ==
    LET st == StrataOf(nA, nB)
        n  == nA + nB
    IN  [i \in 1..n |->
            st[i] @@ [is_used |-> 1, log_l |-> CovOf(pat, st[i].stratum_id, 0)]]
        \o
        [j \in 1..(n * K) |->
            LET sidx == ((j - 1) \div K) + 1
                a    == ((j - 1) % K) + 1
            IN  st[sidx] @@ [is_used |-> 0, log_l |-> CovOf(pat, st[sidx].stratum_id, a)]]

DesignTables ==
    {DesignOf(nA, nB, K, pat) :
        nA \in 0..MaxStrata, nB \in 0..MaxStrata, K \in 1..MaxK, pat \in Patterns}

----------------------------------------------------------------------------
(* kfold_time_cv alone (specification SpecCV).                             *)

\* k ranges over 2..MaxFolds.
MaxFolds == 3

PipelineIdle ==
    /\ raw = [id \in Ids |-> [t \in Times |-> NaN]]
    /\ cfg = CHOOSE c \in Configs : TRUE
    /\ reg = <<>>
    /\ err = "none"

InitCV ==
    /\ pc = "cv_loop"
    /\ design \in {SanitizedForFit(d) : d \in DesignTables}
    /\ \E k \in 2..MaxFolds : cv = CVStart(design, k)
    /\ res = None
    /\ fitted_on = None
    /\ metrics = EmptyDict
    /\ exported = None
    /\ reported = FALSE
    /\ PipelineIdle
    /\ QueryIdle

\* for f in range(k): one pass; after the last pass, or a break, the loop
\* is left
CVFold ==
    /\ pc = "cv_loop"
    /\ \E o \in FoldOutcomes :
           LET c == FoldStep(cv, o)
           IN  /\ cv' = c
               /\ pc' = IF c.broke \/ c.f >= c.k THEN "cv_aggregate" ELSE "cv_loop"
    /\ UNCHANGED <<raw, cfg, reg, design, err, queryVars,
                   res, fitted_on, metrics, exported, reported>>

\* the aggregation and the return
CVAggregate ==
    /\ pc = "cv_aggregate"
    /\ cv' = [cv EXCEPT !.out = Aggregate(cv)]
    /\ pc' = "cv_returned"
    /\ UNCHANGED <<raw, cfg, reg, design, err, queryVars,
                   res, fitted_on, metrics, exported, reported>>

NextCV ==
    \/ CVFold
    \/ CVAggregate

SpecCV == InitCV /\ [][NextCV]_vars

----------------------------------------------------------------------------
(* The fit command (specification SpecFit).                                *)

InitFit ==
    /\ pc = "fit_start"
    /\ design \in DesignTables
    /\ FitIdle
    /\ PipelineIdle
    /\ QueryIdle

\* res = try_statsmodels_conditional_logit(dsg, formula_cols)
FitTry ==
    /\ pc = "fit_start"
    /\ \E backend \in Backends :
           LET r == try_statsmodels_conditional_logit(design, backend)
           IN  IF r.raised
               THEN /\ pc' = "aborted"
                    /\ err' = "ConditionalLogit unavailable or failed"
                    /\ fitted_on' = [rows |-> design]
                    /\ res' = res
               ELSE /\ pc' = "fit_sanitize"
                    /\ res' = r.value
                    /\ fitted_on' = [rows |-> design]
                    /\ err' = err
    /\ UNCHANGED <<raw, cfg, reg, design, queryVars, metrics, exported, reported, cv>>

\* lines 70-83: the strata with NaN/Inf in a formula covariate are dropped
FitSanitize ==
    /\ pc = "fit_sanitize"
    /\ design' = SanitizedForFit(design)
    /\ pc' = IF res # None THEN "fit_summary" ELSE "fit_export"
    /\ UNCHANGED <<raw, cfg, reg, err, queryVars, fitVars>>

\* lines 87-91: the summary of the fit, then the call of kfold_time_cv
FitSummarize ==
    /\ pc = "fit_summary"
    /\ metrics' = summarize_conditional_logit(res) @@ metrics
    /\ cv' = CVStart(design, FitFolds)
    /\ pc' = "cv_loop"
    /\ UNCHANGED <<raw, cfg, reg, design, err, queryVars,
                   res, fitted_on, exported, reported>>

\* line 92: metrics.update(cv)
FitCVReturn ==
    /\ pc = "cv_returned"
    /\ metrics' = cv.out @@ metrics
    /\ pc' = "fit_report"
    /\ UNCHANGED <<raw, cfg, reg, design, err, queryVars,
                   res, fitted_on, exported, reported, cv>>

\* line 96: export_for_r(dsg, formula_cols)
FitExport ==
    /\ pc = "fit_export"
    /\ exported' = [rows |-> export_for_r(design)]
    /\ pc' = "fit_report"
    /\ UNCHANGED <<raw, cfg, reg, design, err, queryVars,
                   res, fitted_on, metrics, reported, cv>>

\* line 98: render_report
FitReport ==
    /\ pc = "fit_report"
    /\ reported' = TRUE
    /\ pc' = "fit_done"
    /\ UNCHANGED <<raw, cfg, reg, design, err, queryVars,
                   res, fitted_on, metrics, exported, cv>>

NextFit ==
    \/ FitTry
    \/ FitSanitize
    \/ FitSummarize
    \/ CVFold
    \/ CVAggregate
    \/ FitCVReturn
    \/ FitExport
    \/ FitReport

SpecFit == InitFit /\ [][NextFit]_vars

----------------------------------------------------------------------------
(* Properties of the design pipeline (specification Spec).                 *)

RowsOf(d, sid) == {i \in 1..Len(d) : d[i].stratum_id = sid}

UsedOf(d, sid) == {i \in RowsOf(d, sid) : d[i].is_used = 1}

AvailOf(d, sid) == {i \in RowsOf(d, sid) : d[i].is_used = 0}

SeqToSet(s) == {s[i] : i \in 1..Len(s)}

RegIds(rg) == {rg[i].idx : i \in 1..Len(rg)}

\* an available row of step r: an endpoint at some pooled length along some
\* pooled turn from r's origin (x_prev, y_prev)
DrawnFrom(row, r, lens, turns) ==
    \E l \in lens, t \in turns :
        LET h0 == IF IsFinite(r.heading_prev_rad) THEN r.heading_prev_rad
                  ELSE r.heading_rad
            h  == (h0 + t + TwoPi) % TwoPi
        IN  /\ row.heading_step = h
            /\ row.x_end = r.x_prev + (l * SinQ(h)) \div One
            /\ row.y_end = r.y_prev + (l * CosQ(h)) \div One

\* C1: build_used_available returns exactly K+1 rows per input step: one
\* row with is_used = 1 at the step's own endpoint and K rows with
\* is_used = 0, all with the step's row identity as stratum_id, its id and
\* time, and an endpoint reached from the step's origin (x_prev, y_prev).
C1_StrataComplete ==
    pc = "built" =>
        /\ Len(design) = Len(reg) * (cfg.K_available + 1)
        /\ Cardinality(RegIds(reg)) = Len(reg)
        /\ \A i \in 1..Len(design) : design[i].stratum_id \in RegIds(reg)
        /\ \A j \in 1..Len(reg) :
            LET r == reg[j]
            IN  /\ Cardinality(UsedOf(design, r.idx)) = 1
                /\ Cardinality(AvailOf(design, r.idx)) = cfg.K_available
                /\ Cardinality(RowsOf(design, r.idx)) = cfg.K_available + 1
                /\ \A i \in RowsOf(design, r.idx) :
                       design[i].id = r.id /\ design[i].time = r.time
                /\ \A i \in UsedOf(design, r.idx) :
                       /\ design[i].x_end = r.x_m
                       /\ design[i].y_end = r.y_m
                       /\ design[i].log_l = LogQ(Hypot(r.x_m - r.x_prev, r.y_m - r.y_prev))
                /\ \A i \in AvailOf(design, r.idx) :
                       /\ \E l \in SeqToSet(PoolLen(reg)), h \in 0..(TwoPi - 1) :
                              /\ design[i].x_end = r.x_prev + (l * SinQ(h)) \div One
                              /\ design[i].y_end = r.y_prev + (l * CosQ(h)) \div One
                       /\ design[i].log_l =
                              LogQ(Hypot(design[i].x_end - r.x_prev,
                                         design[i].y_end - r.y_prev))

\* a design table built from steps of both individuals, one of them with
\* two steps, with two alternatives per step
C1_Witness ==
    /\ pc = "built"
    /\ cfg.K_available = 2
    /\ Len(design) = Len(reg) * 3
    /\ \E i, j, k \in 1..Len(reg) :
           i < j /\ reg[i].id = "A" /\ reg[j].id = "A" /\ reg[k].id = "B"

\* C3: in the output of regularize the rows of one individual are in time
\* order and consecutive rows are exactly dt_minutes apart.
C3_GridSpacing ==
    pc \notin {"start", "failed"} =>
        \A i, j \in 1..Len(reg) :
            (i < j /\ reg[i].id = reg[j].id
                   /\ \A k \in (i + 1)..(j - 1) : reg[k].id # reg[i].id)
            => reg[j].time - reg[i].time = cfg.dt_minutes

\* an individual seen twice, three minutes apart, gets three rows on a
\* one-minute grid
C3_Witness ==
    /\ pc = "regularized"
    /\ cfg.dt_minutes = 1
    /\ FixTimes(raw, "A") = {0, 3}
    /\ Cardinality({i \in 1..Len(reg) : reg[i].id = "A"}) = 3

\* C4: the drop of strata with a non-finite cos_turn keeps all the rows of
\* a stratum or none of them, and every stratum that remains has K+1 rows,
\* exactly one of them with is_used = 1.
C4_DropAllOrNothing ==
    [][(pc = "filled" /\ pc' = "dropped") =>
        \A sid \in RegIds(reg) :
            /\ \/ Cardinality(RowsOf(design', sid)) = 0
               \/ /\ Cardinality(RowsOf(design', sid)) = Cardinality(RowsOf(design, sid))
                  /\ Cardinality(RowsOf(design', sid)) = cfg.K_available + 1
                  /\ Cardinality(UsedOf(design', sid)) = 1
            /\ \A i \in RowsOf(design', sid) : IsFinite(design'[i].cos_turn)
            /\ (\E i \in RowsOf(design, sid) : ~IsFinite(design[i].cos_turn))
                   => RowsOf(design', sid) = {}]_vars

\* some strata were dropped and some were kept
C4_Witness ==
    /\ pc = "dropped"
    /\ Len(design) > 0
    /\ Len(design) < Len(reg) * (cfg.K_available + 1)

\* C9: an individual with one or two fixes has no row in the output of
\* regularize.
C9_FewFixesNoRows ==
    pc \notin {"start", "failed"} =>
        \A id \in Ids :
            Cardinality(FixTimes(raw, id)) \in {1, 2}
                => \A i \in 1..Len(reg) : reg[i].id # id

NotEnoughSteps == "ValueError: Not enough steps to sample available steps."

\* C10: build_used_available fails, and returns no design table, exactly
\* when the pool of defined step lengths or the pool of defined turn angles
\* is empty; when it returns, every available row has a pooled length and
\* a pooled turn.
C10_PoolsDecideBuild ==
    /\ (pc = "failed" /\ err = NotEnoughSteps) => (PoolsEmpty(reg) /\ design = <<>>)
    /\ (pc \notin {"start", "regularized", "failed"}) => ~PoolsEmpty(reg)
    /\ pc = "built" =>
           \A j \in 1..Len(reg) : \A i \in AvailOf(design, reg[j].idx) :
               DrawnFrom(design[i], reg[j],
                         SeqToSet(PoolLen(reg)), SeqToSet(PoolTurn(reg)))

\* the build failed on a table that has steps but no defined turn angle
C10_Witness ==
    /\ pc = "failed"
    /\ err = NotEnoughSteps
    /\ Len(PoolLen(reg)) > 0
    /\ Len(PoolTurn(reg)) = 0

----------------------------------------------------------------------------
(* Properties of the neighbor queries (specification SpecQuery).           *)

\* the rows where two tables differ
DiffRows(rg, rg2) == {i \in 1..Len(rg) : rg[i] # rg2[i]}

\* C2: a query at time t has the same answer from two tables that have the
\* same rows at t: a change of position, heading or speed at another
\* timestamp never changes it.
C2_TimeExact ==
    (pc = "answered" /\ \A i \in DiffRows(reg, reg2) : reg[i].time # q.time)
        => ans = ans2

\* the position of another individual was changed at another timestamp, and
\* the query found a neighbor
C2_Witness ==
    /\ pc = "answered"
    /\ \E i \in DiffRows(reg, reg2) :
           /\ reg[i].time # q.time
           /\ reg[i].id # q.id
           /\ reg[i].x_m # reg2[i].x_m
    /\ IsFinite(ans.nn_dist)
    /\ ans = ans2

----------------------------------------------------------------------------
(* Properties of kfold_time_cv (specification SpecCV).                     *)

InCV == pc \in {"cv_loop", "cv_aggregate", "cv_returned"}

\* the rows of individual id in fold f
FoldRows(id, f) == {i \in 1..Len(cv.d) : cv.d[i].id = id /\ cv.d[i].t_fold = f}

IdRows(id) == {i \in 1..Len(cv.d) : cv.d[i].id = id}

\* C5: the fold labels split the rows of each individual into k blocks
\* that cover them, each block non-empty when the individual has at least k
\* rows, and every row of a lower-numbered block is no later than every row
\* of a higher-numbered block.
C5_FoldsAreTimeBlocks ==
    InCV =>
        \A id \in Ids :
            /\ \A i \in IdRows(id) : cv.d[i].t_fold \in 0..(cv.k - 1)
            /\ Cardinality(IdRows(id)) >= cv.k
                   => \A f \in 0..(cv.k - 1) : FoldRows(id, f) # {}
            /\ \A f \in 0..(cv.k - 1), g \in 0..(cv.k - 1) :
                   f < g => \A i \in FoldRows(id, f), j \in FoldRows(id, g) :
                                cv.d[i].time <= cv.d[j].time

\* the folds 0..n-1 in order
UpTo(n) == [i \in 1..n |-> i - 1]

\* C7: a failure of fold f is recorded in errors and ends the loop: the
\* folds are taken in the order 0, 1, ..., the failed fold is the last one
\* fitted, every fold before it was scored, at most one error is recorded,
\* and the returned dict carries the errors list.
C7_FailureStopsFolds ==
    InCV =>
        /\ Len(cv.errors) <= 1
        /\ cv.fitted = UpTo(Len(cv.fitted))
        /\ Len(cv.fitted) <= cv.k
        /\ cv.errors = <<>> => cv.scored = cv.fitted
        /\ cv.errors # <<>> =>
               /\ pc # "cv_loop"
               /\ cv.scored = UpTo(Len(cv.fitted) - 1)
        /\ (pc = "cv_returned" /\ cv.errors # <<>>) =>
               /\ "errors" \in DOMAIN cv.out
               /\ cv.out.errors = cv.errors

C7_Witness ==
    /\ pc = "cv_returned"
    /\ Len(cv.errors) = 1
    /\ Len(cv.scored) >= 1
    /\ Len(cv.fitted) < cv.k
    /\ Len(cv.d) >= cv.k

----------------------------------------------------------------------------
(* Properties of the fit command (specification SpecFit).                  *)

\* C8: when a fold failed, neither the dict kfold_time_cv returns nor the
\* metrics record of the fit command holds a log_score, rank_mean or
\* rank_top1.
C8_NoPartialMetrics ==
    /\ (pc = "cv_returned" /\ cv.errors # <<>>) => DOMAIN cv.out \cap MetricKeys = {}
    /\ (pc = "fit_done" /\ "errors" \in DOMAIN metrics) => DOMAIN metrics \cap MetricKeys = {}

\* C6: a backend that is missing or raises gives None and no exception; the
\* command then exports the sanitized table and ends with the report
\* written; a table is exported only when there is no model.
C6_FallbackExport ==
    /\ \A b \in Backends :
           (b.import # "ok" \/ b.fit # "ok") =>
               LET r == try_statsmodels_conditional_logit(design, b)
               IN  ~r.raised /\ r.value = None
    /\ pc # "aborted"
    /\ exported # None =>
           /\ res = None
           /\ exported.rows = export_for_r(SanitizedForFit(fitted_on.rows))
    /\ pc = "fit_done" =>
           /\ reported
           /\ (exported # None) <=> (res = None)

C6_Witness ==
    /\ pc = "fit_done"
    /\ res = None
    /\ reported
    /\ exported # None
    /\ exported.rows # <<>>
    /\ Len(exported.rows) < Len(fitted_on.rows)

----------------------------------------------------------------------------
(* Properties of the social covariates (specification Spec).               *)

SocialCols ==
    {"nn_dist", "n_forward", "n_behind", "ahead_any", "behind_any",
     "mean_align_fwd", "rel_speed_fwd"}

\* what query_social returns for design row i
AnswerOf(i) ==
    query_social(reg, cfg.neighbor_radius_m, cfg.cone_half_angle_deg,
                 design[i].time, design[i].x_end, design[i].y_end,
                 design[i].heading_step, design[i].id)

\* the timestamps that are no key of the index
AbsentTimes == (0..(MaxT + 1)) \ IndexTimes(reg)

\* C11: after the fill every social covariate of every design row is defined;
\* counts and flags are 0 when absent, mean_align_fwd and rel_speed_fwd are 0
\* without a forward neighbor, nn_dist is the radius when the query found no
\* neighbor and never exceeds the radius; a query at a timestamp the index
\* does not hold returns the "no neighbors" record.
C11_SocialDefined ==
    pc = "filled" =>
        /\ \A i \in 1..Len(design) :
               /\ \A col \in SocialCols : IsFinite(design[i][col])
               /\ design[i].nn_dist <= cfg.neighbor_radius_m
               /\ AnswerOf(i) = NoNeighbors =>
                      /\ design[i].nn_dist = cfg.neighbor_radius_m
                      /\ \A col \in SocialCols \ {"nn_dist"} : design[i][col] = 0
               /\ design[i].n_forward = 0 =>
                      /\ design[i].mean_align_fwd = 0
                      /\ design[i].rel_speed_fwd = 0
                      /\ design[i].ahead_any = 0
        /\ \A t \in AbsentTimes, i \in 1..Len(design) :
               query_social(reg, cfg.neighbor_radius_m, cfg.cone_half_angle_deg, t,
                            design[i].x_end, design[i].y_end,
                            design[i].heading_step, design[i].id) = NoNeighbors

C11_Witness ==
    /\ pc = "filled"
    /\ AbsentTimes \cap Times # {}
    /\ \E i \in 1..Len(design) : AnswerOf(i) = NoNeighbors
    /\ \E i \in 1..Len(design) :
           /\ AnswerOf(i).nn_dist # NaN
           /\ AnswerOf(i).n_forward = 0
           /\ design[i].nn_dist < cfg.neighbor_radius_m
    /\ \E i \in 1..Len(design) : design[i].n_forward > 0

----------------------------------------------------------------------------
(* Properties of the design command (specification Spec).                  *)

\* C12: the regularized table is made from the cleaned fixes: it is what
\* regularize returns for the output of clean_raw (no row at all when
\* clean_raw keeps no fix), so that a removed fix contributes to no row.
C12_RegularizedFromCleaned ==
    pc \in {"regularized", "built", "social", "filled", "dropped", "designed"} =>
        IF GroupIds(clean_raw(raw)) = <<>> THEN reg = <<>> /\ design = <<>>
        ELSE reg = regularize(clean_raw(raw), cfg)

----------------------------------------------------------------------------
(* Properties of the scoring (specification SpecCV).                       *)

\* cv.p was computed from cv.test: the last pass of the loop got as far as
\* line 27
Scored ==
    /\ InCV
    /\ cv.p # <<>>
    /\ cv.errors \in {<<>>, <<"ranking failed">>}

\* the rows of stratum s among the held-out rows
TestRowsOf(s) == {i \in 1..Len(cv.test) : cv.test[i].stratum_id = s}

TestStrata == {cv.test[i].stratum_id : i \in 1..Len(cv.test)}

\* the rows of a table that are in stratum s
OnlyStratum(vals, strata, s) ==
    SelectSeq([i \in 1..Len(vals) |-> <<vals[i], strata[i]>>],
              LAMBDA pr : pr[2] = s)

\* C13: the probabilities of every stratum are non-negative and sum to 1
\* over its rows; when all rows of a stratum of n rows have the same linear
\* predictor each gets 1/n; the probabilities of a stratum are those the
\* stratum gets when it is the only one in the table.
C13_SoftmaxPerStratum ==
    Scored =>
        /\ Len(cv.p) = Len(cv.test)
        /\ \A i \in 1..Len(cv.p) : cv.p[i].num >= 0 /\ cv.p[i].den > 0
        /\ \A s \in TestStrata :
               LET rows == SelectSeq([i \in 1..Len(cv.p) |-> i],
                                     LAMBDA i : cv.test[i].stratum_id = s)
                   n    == Len(rows)
                   alone == OnlyStratum(cv.eta, StrataCol(cv.test), s)
               IN  /\ \A u \in 1..n :
                          SeqSum([v \in 1..n |-> cv.p[rows[v]].num]) = cv.p[rows[u]].den
                   /\ (\A u \in 1..n : cv.eta[rows[u]] = cv.eta[rows[1]]) =>
                          \A u \in 1..n : cv.p[rows[u]].num * n = cv.p[rows[u]].den
                   /\ softmax_by_stratum([u \in 1..n |-> alone[u][1]],
                                         [u \in 1..n |-> alone[u][2]])
                          = [u \in 1..n |-> cv.p[rows[u]]]

C13_Witness ==
    /\ Scored
    /\ Cardinality(TestStrata) >= 2
    /\ \E s \in TestStrata :
           /\ Cardinality(TestRowsOf(s)) >= 2
           /\ \A i \in TestRowsOf(s), j \in TestRowsOf(s) : cv.eta[i] = cv.eta[j]
    /\ \E s \in TestStrata :
           \E i \in TestRowsOf(s), j \in TestRowsOf(s) : cv.p[i].num # cv.p[j].num

----------------------------------------------------------------------------
(* Properties of query_social (specification SpecSocial).                  *)

\* the rows of reg at the query time, not of the focal individual, within
\* the radius of the query endpoint
InRadius ==
    {i \in 1..Len(reg) :
        /\ reg[i].time = q.time
        /\ reg[i].id # q.id
        /\ (reg[i].x_m - q.x_end) * (reg[i].x_m - q.x_end)
           + (reg[i].y_m - q.y_end) * (reg[i].y_m - q.y_end)
               <= cfg.neighbor_radius_m * cfg.neighbor_radius_m}

\* the projection of row i on the query heading
Projection(i) ==
    (reg[i].x_m - q.x_end) * SinQ(q.heading_step)
    + (reg[i].y_m - q.y_end) * CosQ(q.heading_step)

\* the angle between the direction to row i and the heading h, in degrees
DeviationDeg(i, h) ==
    LET a == Arctan2Q(reg[i].x_m - q.x_end, reg[i].y_m - q.y_end)
        d == (a - h) % TwoPi
    IN  (IF d > Pi THEN TwoPi - d ELSE d) * (360 \div TwoPi)

Forward ==
    {i \in InRadius :
        Projection(i) > 0 /\ DeviationDeg(i, q.heading_step) <= cfg.cone_half_angle_deg}

\* C14: the focal individual's own point is not counted, only the points at
\* the query time within the radius are; n_forward counts the neighbors
\* with a positive projection and a deviation of at most the cone
\* half-angle, ahead_any is 1 iff there is one, mean_align_fwd is defined iff
\* there is one, nn_dist is the least distance over the neighbors in the
\* radius, and a neighbor exactly on the heading gives ahead_any = 1.
C14_ForwardClassified ==
    pc = "q_answered" =>
        /\ ans.n_forward = Cardinality(Forward)
        /\ ans.ahead_any = (IF Forward # {} THEN 1 ELSE 0)
        /\ (ans.mean_align_fwd # NaN) <=> (Forward # {})
        /\ IF InRadius = {} THEN ans.nn_dist = NaN
           ELSE ans.nn_dist = SetMin({Hypot(reg[i].x_m - q.x_end, reg[i].y_m - q.y_end) :
                                         i \in InRadius})
        /\ (\E i \in InRadius : Projection(i) > 0 /\ DeviationDeg(i, q.heading_step) = 0)
               => ans.ahead_any = 1

C14_Witness ==
    /\ pc = "q_answered"
    /\ \E i \in 1..Len(reg) :
           /\ reg[i].id = q.id
           /\ reg[i].time = q.time
           /\ reg[i].y_m - q.y_end > 0
           /\ DeviationDeg(i, q.heading_step) = 0
    /\ \E i \in InRadius : Projection(i) > 0 /\ DeviationDeg(i, q.heading_step) = 0
    /\ \E i \in 1..Len(reg) :
           /\ reg[i].id # q.id
           /\ Projection(i) > 0
           /\ i \notin Forward
    /\ ans.n_forward = 1
    /\ ans.nn_dist # NaN

\* C18: a neighbor within the radius that is behind the heading under the
\* mirrored test (negative projection, at most the cone half-angle away from
\* the direction opposite to the heading) is counted: n_behind >= 1 and
\* behind_any = 1.
C18_BehindCounted ==
    (/\ pc = "q_answered"
     /\ cfg.cone_half_angle_deg <= 90
     /\ \E i \in InRadius :
            /\ Projection(i) < 0
            /\ DeviationDeg(i, q.heading_step + Pi) <= cfg.cone_half_angle_deg)
        => (ans.n_behind >= 1 /\ ans.behind_any = 1)

----------------------------------------------------------------------------
(* Properties of the fold labels (specification SpecCV).                   *)

\* C15: all rows of a stratum carry the same fold label, so that no stratum
\* is split between the training rows and the held-out rows of a fold, and
\* a held-out stratum that is scored has its used row and all its
\* alternatives among the held-out rows.
C15_StrataInOneFold ==
    InCV =>
        /\ \A i \in 1..Len(cv.d), j \in 1..Len(cv.d) :
               cv.d[i].stratum_id = cv.d[j].stratum_id
                   => cv.d[i].t_fold = cv.d[j].t_fold
        /\ Scored =>
               \A s \in TestStrata :
                   Cardinality(TestRowsOf(s))
                       = Cardinality({i \in 1..Len(cv.d) : cv.d[i].stratum_id = s})

----------------------------------------------------------------------------
(* Properties of the order of the fit command (specification SpecFit).     *)

\* C16: the table handed to the fitting function is the sanitized one: it
\* has no row of a stratum with a NaN/Inf formula covariate, and the
\* cross-validation and the export work on the very rows the fit got.
C16_FitOnSanitized ==
    /\ fitted_on # None =>
           /\ BadFitStrata(fitted_on.rows) = {}
           /\ fitted_on.rows = SanitizedForFit(fitted_on.rows)
    /\ (InCV /\ res # None) => Len(cv.d) = Len(fitted_on.rows)
    /\ exported # None => exported.rows = export_for_r(fitted_on.rows)

----------------------------------------------------------------------------
(* Properties of the turn angle (specification SpecTurn).                  *)

\* C17: the turn angle of two consecutive bearings is their difference up
\* to whole turns, lies in (-pi, pi], and is +pi for an exact reversal.
C17_TurnHalfOpen ==
    pc = "t_done" =>
        \A k \in 2..Len(reg) :
            LET h  == reg[k].heading_rad
                hp == reg[k].heading_prev_rad
                t  == reg[k].turn_rad
            IN  /\ (t - (h - hp)) % TwoPi = 0
                /\ t > 0 - Pi
                /\ t <= Pi
                /\ ((h - hp) % TwoPi = Pi) => t = Pi

====
